---- MODULE Spec2Model ----
(***************************************************************************)
(* Model of 022_waveNvibe_streamlit.py: the edge selection / node          *)
(* admission pipeline (lines 65-127) and the hoverNode / blurNode          *)
(* handlers injected into the generated page (lines 164-212).              *)
(*                                                                         *)
(* One run of the script is: sort the edge table by weight and keep the    *)
(* first limit_edges rows (line 72), scan the kept rows once (85-127),     *)
(* save the graph and inject the handlers (155-222); after that the page   *)
(* is live and receives hoverNode / blurNode events.                       *)
(***************************************************************************)
EXTENDS Integers, Sequences, FiniteSets, TLC

\* ---------------------------------------------------------------- bounds
MaxRows == 2          \* rows of the edge table

\* ---------------------------------------------------------------- inputs
NodeIds == {"A", "B", "C"}
Counts == {0, 5}
Weights == {100, 600}
MinCounts == {0, 1}
EdgePairs == {<<"A", "B">>, <<"B", "C">>, <<"A", "C">>}
ColorWeights == {1, 50, 51, 150, 151, 300, 301, 500, 501, 900}

\* ------------------------------------------------------- program constants
NODE_COLOR == "#FF9F1C"
DIM_COLOR == "#E0E0E0"
DIM_FONT_COLOR == "#888888"
BaseSize == 25
BaseFontSize == 14
HoverSize == 45
HoverFontSize == 25

VARIABLES
    node_info_dict,   \* id -> [count |-> c], ids of the node table only
    raw_edges,        \* the edge table, in input order
    limit_edges,      \* sidebar slider
    min_node_count,   \* sidebar number input
    sorted_edges,     \* raw_edges.sort_values(by='weight', ascending=False)
    df_edges_sorted,  \* ... .head(limit_edges)
    row_i,            \* position of the for loop in df_edges_sorted
    added_nodes,      \* set of admitted node ids
    net_nodes,        \* id -> options given to net.add_node
    net_edges,        \* sequence of net.add_edge calls
    nodes,            \* the page's node DataSet: id -> current options
    last_event,       \* "none" | "hoverNode" | "blurNode"
    hoveredNodeId,    \* params.node of the latest hoverNode event
    pc                \* "sort" | "scan" | "live"

vars == <<node_info_dict, raw_edges, limit_edges, min_node_count, sorted_edges,
          df_edges_sorted, row_i, added_nodes, net_nodes, net_edges, nodes,
          last_event, hoveredNodeId, pc>>

NoNode == "-"

\* ------------------------------------------------------------ pure helpers

\* get_edge_color, with a strict comparison at the upper bounds.
get_edge_color_strict(weight) ==
    LET alpha == IF weight < 50 THEN "0.1"
                 ELSE IF weight < 150 THEN "0.3"
                 ELSE IF weight < 300 THEN "0.5"
                 ELSE IF weight < 500 THEN "0.7"
                 ELSE "1.0"
    IN  "rgba(100, 100, 100, " \o alpha \o ")"

\* get_edge_color(weight): the if / elif chain and the f-string.
get_edge_color(weight) ==
    LET alpha == IF weight <= 50 THEN "0.1"
                 ELSE IF weight <= 150 THEN "0.3"
                 ELSE IF weight <= 300 THEN "0.5"
                 ELSE IF weight <= 500 THEN "0.7"
                 ELSE "1.0"
    IN  "rgba(100, 100, 100, " \o alpha \o ")"

\* dict.get(k, default)
DictGet(d, k, default) == IF k \in DOMAIN d THEN d[k] ELSE default

\* The count lookup with a default of 1 for a missing id.
NodeCountDefaultOne(id) ==
    IF id \in DOMAIN node_info_dict THEN node_info_dict[id].count ELSE 1

\* info = node_info_dict.get(id, {}); count = info.get('count', 0)
NodeCount(id) ==
    LET info == DictGet(node_info_dict, id, <<>>)
    IN  DictGet(info, "count", 0)

\* The options net.add_node is called with.
AddNodeOptions(id, count) ==
    [id |-> id, label |-> id, title |-> <<id, count>>, color |-> NODE_COLOR,
     size |-> BaseSize, shape |-> "circle",
     font |-> [color |-> "white", size |-> BaseFontSize]]

\* One "if x not in added_nodes: ..." block; st = [added, nnodes, nedges].
AdmitNode(st, id) ==
    IF id \notin st.added /\ NodeCount(id) >= min_node_count
    THEN [st EXCEPT !.added = @ \cup {id},
                    !.nnodes = [n \in DOMAIN @ \cup {id} |->
                                  IF n = id THEN AddNodeOptions(id, NodeCount(id))
                                  ELSE @[n]]]
    ELSE st

\* The edge guard with "or" in place of "and".
EdgeGuardOr(st, src, dst) == src \in st.added \/ dst \in st.added

\* if src in added_nodes and dst in added_nodes
EdgeGuard(st, src, dst) == src \in st.added /\ dst \in st.added

\* net.add_edge(src, dst, title=f"Weight: {w}", color=color_rgba)
AddEdge(st, src, dst, w) ==
    [st EXCEPT !.nedges = Append(@, [from |-> src, to |-> dst,
                                     title |-> <<"Weight: ", w>>,
                                     color |-> get_edge_color(w)])]

\* The loop body that skips the rest of the row when the source is rejected.
ScanStepSkipOnReject(st, row) ==
    LET s1 == AdmitNode(st, row.source)
    IN  IF row.source \notin s1.added THEN s1
        ELSE LET s2 == AdmitNode(s1, row.target)
             IN  IF EdgeGuard(s2, row.source, row.target)
                 THEN AddEdge(s2, row.source, row.target, row.weight)
                 ELSE s2

\* The loop body that admits the endpoints only when both pass the threshold.
ScanStepBothOrNone(st, row) ==
    IF NodeCount(row.source) >= min_node_count
       /\ NodeCount(row.target) >= min_node_count
    THEN AddEdge(AdmitNode(AdmitNode(st, row.source), row.target),
                 row.source, row.target, row.weight)
    ELSE st

\* The body of "for row in df_edges_sorted.itertuples()".
ScanStep(st, row) ==
    LET s1 == AdmitNode(st, row.source)
        s2 == AdmitNode(s1, row.target)
    IN  IF EdgeGuard(s2, row.source, row.target)
        THEN AddEdge(s2, row.source, row.target, row.weight)
        ELSE s2

EmptyScan == [added |-> {}, nnodes |-> <<>>, nedges |-> <<>>]

\* The whole for loop over a list of rows.
RECURSIVE ScanAll(_)
ScanAll(rows) ==
    IF rows = <<>> THEN EmptyScan
    ELSE ScanStep(ScanAll(SubSeq(rows, 1, Len(rows) - 1)), rows[Len(rows)])

Min(a, b) == IF a <= b THEN a ELSE b

\* A slice from position n on, in place of the first n rows.
headFromN(s, n) == SubSeq(s, n, Len(s))

\* One row more than asked for.
headOneMore(s, n) == SubSeq(s, 1, Min(n + 1, Len(s)))

\* DataFrame.head(n), n >= 1
head(s, n) == SubSeq(s, 1, Min(n, Len(s)))

Perms(n) == {p \in [1..n -> 1..n] : \A a, b \in 1..n : a # b => p[a] # p[b]}

\* The frame a row order p yields: rows keep their index label (0-based).
Reindex(rows, p) ==
    [k \in 1..Len(rows) |->
        [Index |-> p[k] - 1, source |-> rows[p[k]].source,
         target |-> rows[p[k]].target, weight |-> rows[p[k]].weight]]

\* sort_values with ascending=True.
SortValuesAscending(rows) ==
    {Reindex(rows, p) : p \in
        {q \in Perms(Len(rows)) :
            \A k \in 1..(Len(rows) - 1) : rows[q[k]].weight <= rows[q[k + 1]].weight}}

\* sort_values(by='weight', ascending=False) with the default kind
\* ('quicksort'): the result is ordered by weight, non-increasing; the
\* default kind is not a stable sort, so the order among rows of equal weight
\* is any of the possible ones.
SortValues(rows) ==
    {Reindex(rows, p) : p \in
        {q \in Perms(Len(rows)) :
            \A k \in 1..(Len(rows) - 1) : rows[q[k]].weight >= rows[q[k + 1]].weight}}

\* --------------------------------------------------------------- the page

\* DataSet.update of one item as the network applies it: the fields of the
\* update replace the item's, font field by field; other fields are kept.
UpdateItem(item, upd) ==
    [f \in DOMAIN item |->
        IF f \notin DOMAIN upd THEN item[f]
        ELSE IF f = "font"
             THEN [g \in DOMAIN item.font |->
                     IF g \in DOMAIN upd.font THEN upd.font[g] ELSE item.font[g]]
             ELSE upd[f]]

\* network.getConnectedNodes(id): the other ends of the edges at id.
getConnectedNodes(id) ==
    {net_edges[k].to : k \in {j \in 1..Len(net_edges) : net_edges[j].from = id}}
    \cup {net_edges[k].from : k \in {j \in 1..Len(net_edges) : net_edges[j].to = id}}

\* The update hoverNode pushes for one node.
HoverUpdate(nodeId, connectedSet) ==
    IF nodeId \in connectedSet
    THEN [size |-> HoverSize,
          font |-> [size |-> HoverFontSize, color |-> "white"],
          color |-> NODE_COLOR]
    ELSE [color |-> DIM_COLOR, font |-> [color |-> DIM_FONT_COLOR]]

\* The blurNode update without the size field.
BlurUpdateNoSize(nodeId) ==
    [font |-> [size |-> BaseFontSize, color |-> "white"], color |-> NODE_COLOR]

\* The update blurNode pushes for one node.
BlurUpdate(nodeId) ==
    [size |-> BaseSize, font |-> [size |-> BaseFontSize, color |-> "white"],
     color |-> NODE_COLOR]

\* ------------------------------------------------------------------- Init

Rows(pairs, weights) ==
    {[source |-> e[1], target |-> e[2], weight |-> w] : e \in pairs, w \in weights}

SeqsUpTo(S, n) == UNION {[1..k -> S] : k \in 0..n}

NodeTables ==
    UNION {[P -> [count : Counts]] : P \in {NodeIds, NodeIds \ {"C"}}}

InitWith(tables, rowSet, minCounts) ==
    /\ node_info_dict \in tables
    /\ raw_edges \in SeqsUpTo(rowSet, MaxRows)
    /\ limit_edges \in 1..(MaxRows + 1)
    /\ min_node_count \in minCounts
    /\ sorted_edges = <<>>
    /\ df_edges_sorted = <<>>
    /\ row_i = 0
    /\ added_nodes = {}
    /\ net_nodes = <<>>
    /\ net_edges = <<>>
    /\ nodes = <<>>
    /\ last_event = "none"
    /\ hoveredNodeId = NoNode
    /\ pc = "sort"

Init == InitWith(NodeTables, Rows(EdgePairs, Weights), MinCounts)

\* Inputs for the colour mapping: one pair of known nodes, many weights.
InitColor ==
    InitWith({[n \in {"A", "B"} |-> [count |-> 5]]},
             Rows({<<"A", "B">>}, ColorWeights), {0})

\* ---------------------------------------------------------------- actions

\* line 72
SortEdges ==
    /\ pc = "sort"
    /\ \E s \in SortValues(raw_edges) :
          /\ sorted_edges' = s
          /\ df_edges_sorted' = head(s, limit_edges)
    /\ row_i' = 1
    /\ pc' = "scan"
    /\ UNCHANGED <<node_info_dict, raw_edges, limit_edges, min_node_count,
                   added_nodes, net_nodes, net_edges, nodes, last_event,
                   hoveredNodeId>>

\* lines 85-127, one iteration
ScanRow ==
    /\ pc = "scan"
    /\ row_i <= Len(df_edges_sorted)
    /\ LET st == ScanStep([added |-> added_nodes, nnodes |-> net_nodes,
                           nedges |-> net_edges], df_edges_sorted[row_i])
       IN  /\ added_nodes' = st.added
           /\ net_nodes' = st.nnodes
           /\ net_edges' = st.nedges
    /\ row_i' = row_i + 1
    /\ UNCHANGED <<node_info_dict, raw_edges, limit_edges, min_node_count,
                   sorted_edges, df_edges_sorted, nodes, last_event,
                   hoveredNodeId, pc>>

\* lines 155-222: the loop is over, the graph is saved and the page shown;
\* the page's DataSet holds the nodes as they were added.
SaveGraph ==
    /\ pc = "scan"
    /\ row_i > Len(df_edges_sorted)
    /\ nodes' = net_nodes
    /\ pc' = "live"
    /\ UNCHANGED <<node_info_dict, raw_edges, limit_edges, min_node_count,
                   sorted_edges, df_edges_sorted, row_i, added_nodes, net_nodes,
                   net_edges, last_event, hoveredNodeId>>

\* lines 164-195
HoverNode(n) ==
    /\ pc = "live"
    /\ n \in DOMAIN nodes
    /\ LET connectedSet == getConnectedNodes(n) \cup {n}
       IN  nodes' = [id \in DOMAIN nodes |->
                        UpdateItem(nodes[id], HoverUpdate(id, connectedSet))]
    /\ last_event' = "hoverNode"
    /\ hoveredNodeId' = n
    /\ UNCHANGED <<node_info_dict, raw_edges, limit_edges, min_node_count,
                   sorted_edges, df_edges_sorted, row_i, added_nodes, net_nodes,
                   net_edges, pc>>

\* lines 197-212
BlurNode ==
    /\ pc = "live"
    /\ nodes' = [id \in DOMAIN nodes |-> UpdateItem(nodes[id], BlurUpdate(id))]
    /\ last_event' = "blurNode"
    /\ UNCHANGED <<node_info_dict, raw_edges, limit_edges, min_node_count,
                   sorted_edges, df_edges_sorted, row_i, added_nodes, net_nodes,
                   net_edges, hoveredNodeId, pc>>

Next ==
    \/ SortEdges
    \/ ScanRow
    \/ SaveGraph
    \/ \E n \in NodeIds : HoverNode(n)
    \/ BlurNode

Spec == Init /\ [][Next]_vars

SpecColor == InitColor /\ [][Next]_vars

\* ------------------------------------------------------------- properties

\* The count the node table gives an id, 0 for an id it does not hold.
CountOrZero(n) ==
    IF n \in DOMAIN node_info_dict THEN node_info_dict[n].count ELSE 0

Passes(n) == CountOrZero(n) >= min_node_count

Endpoints(rows) ==
    {rows[k].source : k \in 1..Len(rows)} \cup {rows[k].target : k \in 1..Len(rows)}

EdgeEnds(e) == {e.from, e.to}

ScanDone == pc = "live"

\* C1: every edge added to the graph has its source and its target among
\* the admitted nodes, when it is added and in every later state; the nodes
\* of the page are then the admitted ones.
C1_EdgeEndpointsAdmitted ==
    /\ \A k \in 1..Len(net_edges) :
          net_edges[k].from \in added_nodes /\ net_edges[k].to \in added_nodes
    /\ ScanDone =>
          \A k \in 1..Len(net_edges) : EdgeEnds(net_edges[k]) \subseteq DOMAIN nodes

C1_Witness ==
    /\ ScanDone
    /\ Len(net_edges) >= 1
    /\ Len(net_edges) < Len(df_edges_sorted)

\* C2: every admitted node has count >= min_node_count, an id missing from
\* the node table counting as 0: it is never admitted when min_node_count
\* is at least 1 and always admitted when min_node_count is 0; a row with
\* such an id is scanned like any other.
C2_AdmittedMeetThreshold ==
    /\ \A n \in added_nodes :
          /\ n \in DOMAIN node_info_dict => node_info_dict[n].count >= min_node_count
          /\ n \notin DOMAIN node_info_dict => min_node_count = 0
    /\ \A k \in 1..(row_i - 1) :
          \A n \in {df_edges_sorted[k].source, df_edges_sorted[k].target} :
             (n \notin DOMAIN node_info_dict /\ min_node_count = 0) => n \in added_nodes
    /\ (pc = "scan" /\ row_i <= Len(df_edges_sorted)) => ENABLED ScanRow
    /\ ScanDone => row_i = Len(df_edges_sorted) + 1

C2_Witness ==
    /\ ScanDone
    /\ min_node_count = 1
    /\ added_nodes # {}
    /\ \E n \in Endpoints(df_edges_sorted) :
          n \notin DOMAIN node_info_dict /\ n \notin added_nodes

ExampleC3 ==
    /\ node_info_dict = [n \in {"A", "B"} |-> [count |-> IF n = "A" THEN 5 ELSE 0]]
    /\ raw_edges = <<[source |-> "A", target |-> "B", weight |-> 100]>>
    /\ min_node_count = 1

\* C3 as stated: after the scan every admitted node is an endpoint of an
\* included edge (so the example ends with no node at all).
C3_Original ==
    ScanDone =>
       /\ \A n \in added_nodes :
             \E k \in 1..Len(net_edges) : n \in EdgeEnds(net_edges[k])
       /\ ExampleC3 => (net_edges = <<>> /\ added_nodes = {})

\* C3, amended: every admitted node is an endpoint of a scanned row and
\* passes the threshold on its own count; it need not be an endpoint of an
\* included edge.  In the example the edge is dropped and A alone is
\* admitted and shown.
C3_Amended ==
    /\ \A n \in added_nodes :
          /\ Passes(n)
          /\ \E k \in 1..(row_i - 1) :
                n \in {df_edges_sorted[k].source, df_edges_sorted[k].target}
    /\ (ScanDone /\ ExampleC3) =>
          (net_edges = <<>> /\ added_nodes = {"A"} /\ DOMAIN nodes = {"A"})

C3_Witness ==
    /\ ScanDone
    /\ ExampleC3
    /\ \E n \in added_nodes :
          \A k \in 1..Len(net_edges) : n \notin EdgeEnds(net_edges[k])

\* C4: at most limit_edges edges are added: at most limit_edges rows are
\* scanned and each scanned row adds at most one edge.
C4_EdgesAtMostLimit ==
    /\ Len(net_edges) <= limit_edges
    /\ Len(df_edges_sorted) <= limit_edges
    /\ pc # "sort" => Len(net_edges) <= row_i - 1

C4_Witness ==
    /\ ScanDone
    /\ Len(raw_edges) > limit_edges
    /\ Len(net_edges) = limit_edges

NumIncluded(m) == Len(ScanAll(head(sorted_edges, m)).nedges)

\* C5: with the tables and min_node_count fixed, a larger limit never
\* yields fewer included edges (stated of the sorted table, once sorted);
\* the run's own edges are those of its limit.
C5_MonotoneInLimit ==
    /\ (pc = "scan" /\ row_i = 1) =>
          \A m1, m2 \in 1..(MaxRows + 1) :
             m1 <= m2 => NumIncluded(m1) <= NumIncluded(m2)
    /\ (ScanDone /\ last_event = "none") =>
          Len(net_edges) = NumIncluded(limit_edges)

C5_Witness ==
    /\ ScanDone
    /\ limit_edges = 1
    /\ Len(sorted_edges) >= 2
    /\ sorted_edges[1].weight = sorted_edges[2].weight
    /\ NumIncluded(1) < NumIncluded(2)

Emphasized(v) ==
    /\ nodes[v].size = HoverSize
    /\ nodes[v].font.size = HoverFontSize
    /\ nodes[v].font.color = "white"
    /\ nodes[v].color = NODE_COLOR

Dimmed(v) ==
    /\ nodes[v].color = DIM_COLOR
    /\ nodes[v].font.color = DIM_FONT_COLOR
    /\ nodes[v].size = BaseSize
    /\ nodes[v].font.size = BaseFontSize

\* C6: after hoverNode on n, whatever came before, a node is emphasized iff
\* it is n or a neighbour of n and is dimmed, at its base size and font
\* size, otherwise.
C6_HoverIsFullRepaint ==
    last_event = "hoverNode" =>
       \A v \in DOMAIN nodes :
          IF v \in getConnectedNodes(hoveredNodeId) \cup {hoveredNodeId}
          THEN Emphasized(v)
          ELSE Dimmed(v)

\* C7: after blurNode, whatever came before, every node has the size, font
\* and colour it was added with: 25, 14 white, #FF9F1C.
C7_BlurRestoresNeutral ==
    last_event = "blurNode" =>
       \A v \in DOMAIN nodes :
          /\ nodes[v] = net_nodes[v]
          /\ nodes[v].size = 25
          /\ nodes[v].font = [color |-> "white", size |-> 14]
          /\ nodes[v].color = "#FF9F1C"

C7_Witness ==
    /\ last_event = "blurNode"
    /\ hoveredNodeId # NoNode
    /\ Cardinality(DOMAIN nodes) >= 2
    /\ DOMAIN nodes # getConnectedNodes(hoveredNodeId) \cup {hoveredNodeId}

\* The ordered table of (upper bound, alpha); tenths is alpha * 10.
AlphaTable ==
    << [ub |-> 50, alpha |-> "0.1", tenths |-> 1],
       [ub |-> 150, alpha |-> "0.3", tenths |-> 3],
       [ub |-> 300, alpha |-> "0.5", tenths |-> 5],
       [ub |-> 500, alpha |-> "0.7", tenths |-> 7] >>

LastRow == [alpha |-> "1.0", tenths |-> 10]

FirstMatch(w) ==
    LET hits == {k \in 1..Len(AlphaTable) : w <= AlphaTable[k].ub}
    IN  IF hits = {} THEN LastRow
        ELSE LET k == CHOOSE j \in hits : \A h \in hits : j <= h
             IN  [alpha |-> AlphaTable[k].alpha, tenths |-> AlphaTable[k].tenths]

Rgba(alpha) == "rgba(100, 100, 100, " \o alpha \o ")"

TenthsOf(color) ==
    LET rows == {r \in {AlphaTable[k] : k \in 1..Len(AlphaTable)} :
                    Rgba(r.alpha) = color}
    IN  IF rows = {} THEN LastRow.tenths ELSE (CHOOSE r \in rows : TRUE).tenths

\* C8: the colour of every edge is the fixed base colour with the alpha of
\* the first row of the table its weight does not exceed, 1.0 past the last
\* row; 50, 51, 500 and 501 give 0.1, 0.3, 0.7 and 1.0; alpha does not
\* decrease as the weight grows.
C8_EdgeColorTable ==
    /\ \A k \in 1..Len(net_edges) :
          net_edges[k].color = Rgba(FirstMatch(net_edges[k].title[2]).alpha)
    /\ \A w \in ColorWeights : get_edge_color(w) = Rgba(FirstMatch(w).alpha)
    /\ get_edge_color(50) = "rgba(100, 100, 100, 0.1)"
    /\ get_edge_color(51) = "rgba(100, 100, 100, 0.3)"
    /\ get_edge_color(500) = "rgba(100, 100, 100, 0.7)"
    /\ get_edge_color(501) = "rgba(100, 100, 100, 1.0)"
    /\ \A j, k \in 1..Len(net_edges) :
          net_edges[j].title[2] <= net_edges[k].title[2]
             => TenthsOf(net_edges[j].color) <= TenthsOf(net_edges[k].color)

C8_Witness ==
    /\ ScanDone
    /\ \E j, k \in 1..Len(net_edges) :
          /\ net_edges[j].title[2] = 50
          /\ net_edges[k].title[2] = 51
          /\ net_edges[j].color = "rgba(100, 100, 100, 0.1)"
          /\ net_edges[k].color = "rgba(100, 100, 100, 0.3)"

\* The weight-descending order that keeps rows of equal weight in input order.
StableSortDesc(rows) ==
    CHOOSE s \in SortValues(rows) :
       \A k \in 1..(Len(s) - 1) :
          s[k].weight = s[k + 1].weight => s[k].Index < s[k + 1].Index

\* C9 as stated: the scanned list is the first limit_edges rows of the
\* stable weight-descending order of the input.
C9_Original ==
    pc # "sort" => df_edges_sorted = head(StableSortDesc(raw_edges), limit_edges)

KeptIndex == {df_edges_sorted[k].Index : k \in 1..Len(df_edges_sorted)}

\* C9, amended: the scanned list holds min(limit_edges, n) distinct input
\* rows in weight non-increasing order, each at least as heavy as every row
\* left out; the order among rows of equal weight, and which of them are
\* kept at the boundary, is not fixed by the input order.
C9_Amended ==
    pc # "sort" =>
       /\ Len(df_edges_sorted) = Min(limit_edges, Len(raw_edges))
       /\ \A k \in 1..(Len(df_edges_sorted) - 1) :
             df_edges_sorted[k].weight >= df_edges_sorted[k + 1].weight
       /\ Cardinality(KeptIndex) = Len(df_edges_sorted)
       /\ \A k \in 1..Len(df_edges_sorted) :
             LET r == df_edges_sorted[k]
             IN  /\ r.Index + 1 \in 1..Len(raw_edges)
                 /\ raw_edges[r.Index + 1] =
                       [source |-> r.source, target |-> r.target, weight |-> r.weight]
                 /\ \A j \in 1..Len(raw_edges) :
                       (j - 1) \notin KeptIndex => raw_edges[j].weight <= r.weight

C9_Witness ==
    /\ ScanDone
    /\ limit_edges = 1
    /\ Len(raw_edges) = 2
    /\ raw_edges[1].weight = raw_edges[2].weight
    /\ raw_edges[1] # raw_edges[2]
    /\ df_edges_sorted[1].Index = 1

Permuted(rows, p) == [k \in 1..Len(rows) |-> rows[p[k]]]

\* The two-pass filter: first the nodes, then the edges.
TwoPassNodes(rows) == {n \in Endpoints(rows) : Passes(n)}

RECURSIVE TwoPassEdges(_)
TwoPassEdges(rows) ==
    IF rows = <<>> THEN <<>>
    ELSE LET r == rows[Len(rows)]
             front == TwoPassEdges(SubSeq(rows, 1, Len(rows) - 1))
         IN  IF Passes(r.source) /\ Passes(r.target)
             THEN Append(front, <<r.source, r.target, r.weight>>)
             ELSE front

EdgeTriples(edges) ==
    [k \in 1..Len(edges) |-> <<edges[k].from, edges[k].to, edges[k].title[2]>>]

\* C10: the single scan gives what the two-pass filter gives, in whatever
\* order the kept rows are scanned: the admitted nodes are the endpoints of
\* the kept rows whose count (0 when missing) reaches min_node_count, and
\* the included edges are the kept rows, in order, with both endpoints so.
C10_ScanEqualsTwoPass ==
    /\ ScanDone =>
          /\ added_nodes = TwoPassNodes(df_edges_sorted)
          /\ DOMAIN nodes = TwoPassNodes(df_edges_sorted)
          /\ EdgeTriples(net_edges) = TwoPassEdges(df_edges_sorted)
    /\ (pc = "scan" /\ row_i = 1) =>
          \A p \in Perms(Len(df_edges_sorted)) :
             LET rows == Permuted(df_edges_sorted, p)
                 st == ScanAll(rows)
             IN  /\ st.added = TwoPassNodes(df_edges_sorted)
                 /\ EdgeTriples(st.nedges) = TwoPassEdges(rows)

C10_Witness ==
    /\ ScanDone
    /\ Len(df_edges_sorted) >= 2
    /\ ~Passes(df_edges_sorted[1].source)
    /\ Passes(df_edges_sorted[1].target)
    /\ Len(net_edges) >= 1

====
